---- MODULE Spec2Model ----
(***************************************************************************)
(* Model of basic_futures_bot.py: a one-shot command that validates CLI    *)
(* input, maps it to a Binance futures order payload, submits it through   *)
(* the python-binance client and prints a summary.                         *)
(*                                                                         *)
(* Python values are tagged records so that None, str and float can share  *)
(* a field.  A str is a sequence of one-character strings.  A message is   *)
(* a sequence of text chunks; an f-string is the concatenation of its      *)
(* chunks.                                                                 *)
(***************************************************************************)
EXTENDS Integers, Sequences, FiniteSets, TLC

\* Longest run of whitespace put on each side of an order type under test.
MaxPad == 1
\* Most operator interruptions (Ctrl-C) delivered in one run.
MaxInterrupts == 1

(***************************************************************************)
(* Python values                                                           *)
(***************************************************************************)
None == [t |-> "None"]
Str(s) == [t |-> "str", s |-> s]
Float(cls, neg, mant, scale) ==
    [t |-> "float", cls |-> cls, neg |-> neg, mant |-> mant, scale |-> scale]
NaN == Float("nan", FALSE, 0, 0)
Inf(neg) == Float("inf", neg, 0, 0)

Ok(v) == [ok |-> TRUE, val |-> v]
Exc(cls, msg) == [cls |-> cls, msg |-> msg]
Raise(cls, msg) == [ok |-> FALSE, exc |-> Exc(cls, msg)]

\* bool(x) of an Optional[str]: None and "" are falsy.
Truthy(x) == x.t = "str" /\ x.s # <<>>

(***************************************************************************)
(* str.strip() and str.upper(), over ASCII                                 *)
(***************************************************************************)
Whitespace == {" ", "\t"}
LowerChars == <<"a","b","c","d","e","f","g","h","i","j","k","l","m",
                "n","o","p","q","r","s","t","u","v","w","x","y","z">>
UpperChars == <<"A","B","C","D","E","F","G","H","I","J","K","L","M",
                "N","O","P","Q","R","S","T","U","V","W","X","Y","Z">>

UpperChar(c) ==
    IF \E i \in 1..Len(LowerChars) : LowerChars[i] = c
    THEN UpperChars[CHOOSE i \in 1..Len(LowerChars) : LowerChars[i] = c]
    ELSE c

LowerChar(c) ==
    IF \E i \in 1..Len(UpperChars) : UpperChars[i] = c
    THEN LowerChars[CHOOSE i \in 1..Len(UpperChars) : UpperChars[i] = c]
    ELSE c

Upper(s) == [i \in 1..Len(s) |-> UpperChar(s[i])]
Lower(s) == [i \in 1..Len(s) |-> LowerChar(s[i])]

RECURSIVE LStrip(_)
LStrip(s) ==
    IF s # <<>> /\ Head(s) \in Whitespace THEN LStrip(Tail(s)) ELSE s

RECURSIVE RStrip(_)
RStrip(s) ==
    IF s # <<>> /\ s[Len(s)] \in Whitespace
    THEN RStrip(SubSeq(s, 1, Len(s) - 1))
    ELSE s

Strip(s) == RStrip(LStrip(s))

(***************************************************************************)
(* float(value): surrounding whitespace, an optional sign, then nan, inf,  *)
(* infinity (any case) or decimal digits with at most one point.  The      *)
(* exponent and underscore forms are outside the inputs drawn here.        *)
(***************************************************************************)
Digits == <<"0","1","2","3","4","5","6","7","8","9">>
IsDigit(c) == \E i \in 1..10 : Digits[i] = c
DigitVal(c) == (CHOOSE i \in 1..10 : Digits[i] = c) - 1

RECURSIVE DigitsVal(_)
DigitsVal(s) ==
    IF s = <<>> THEN 0
    ELSE 10 * DigitsVal(SubSeq(s, 1, Len(s) - 1)) + DigitVal(s[Len(s)])

NAN == <<"n","a","n">>
INF == <<"i","n","f">>
INFINITY == <<"i","n","f","i","n","i","t","y">>

ParseUnsigned(body, neg) ==
    LET low == Lower(body)
        points == {i \in 1..Len(body) : body[i] = "."}
        digs == SelectSeq(body, IsDigit)
    IN  IF low = NAN THEN Ok(NaN)
        ELSE IF low = INF \/ low = INFINITY THEN Ok(Inf(neg))
        ELSE IF /\ digs # <<>>
                /\ Cardinality(points) <= 1
                /\ \A i \in 1..Len(body) : IsDigit(body[i]) \/ body[i] = "."
             THEN Ok(Float("fin", neg, DigitsVal(digs),
                           IF points = {} THEN 0
                           ELSE Len(body) - (CHOOSE i \in points : TRUE)))
             ELSE Raise("ValueError", <<"could not convert string to float">>)

PyFloat(value) ==
    IF value.t # "str"
    THEN Raise("TypeError", <<"float() argument must be a string or a number">>)
    ELSE LET s == Strip(value.s)
         IN  IF s # <<>> /\ Head(s) \in {"+", "-"}
             THEN ParseUnsigned(Tail(s), Head(s) = "-")
             ELSE ParseUnsigned(s, FALSE)

\* f <= 0 as IEEE-754 evaluates it: every comparison with nan is false.
LeZero(f) ==
    \/ f.cls = "fin" /\ (f.neg \/ f.mant = 0)
    \/ f.cls = "inf" /\ f.neg

(***************************************************************************)
(* InputValidator                                                          *)
(***************************************************************************)
BUY == <<"B","U","Y">>
SELL == <<"S","E","L","L">>
MARKET == <<"M","A","R","K","E","T">>
LIMIT == <<"L","I","M","I","T">>
STOP_LIMIT == <<"S","T","O","P","_","L","I","M","I","T">>
STOP == <<"S","T","O","P">>
GTC == <<"G","T","C">>

validate_symbol(symbol) ==
    IF ~Truthy(symbol) \/ Strip(symbol.s) = <<>>
    THEN Raise("ValueError", <<"Symbol must not be empty.">>)
    ELSE LET sym == Upper(Strip(symbol.s))
         IN  IF Len(sym) < 6
             THEN Raise("ValueError",
                        <<"Symbol looks invalid (too short). Example: BTCUSDT.">>)
             ELSE Ok(Str(sym))

validate_side(side) ==
    IF ~Truthy(side)
    THEN Raise("ValueError", <<"Side must be provided (BUY or SELL).">>)
    ELSE LET side_upper == Upper(Strip(side.s))
         IN  IF side_upper \notin {BUY, SELL}
             THEN Raise("ValueError", <<"Side must be BUY or SELL.">>)
             ELSE Ok(Str(side_upper))

\* aliases.get(t, t)
Aliases(t) ==
    IF t = <<"M","K","T">> THEN MARKET
    ELSE IF t = <<"S","T","O","P","-","L","I","M","I","T">> THEN STOP_LIMIT
    ELSE IF t = <<"S","T","O","P","L","I","M","I","T">> THEN STOP_LIMIT
    ELSE t

\* The order type looked up without upper().
NoUpperType(order_type) ==
    IF ~Truthy(order_type)
    THEN Raise("ValueError", <<"Order type must be provided.">>)
    ELSE LET t == Aliases(Strip(order_type.s))
         IN  IF t \notin {MARKET, LIMIT, STOP_LIMIT}
             THEN Raise("ValueError",
                        <<"Order type must be MARKET, LIMIT, or STOP_LIMIT.">>)
             ELSE Ok(Str(t))

validate_order_type(order_type) ==
    IF ~Truthy(order_type)
    THEN Raise("ValueError", <<"Order type must be provided.">>)
    ELSE LET t == Aliases(Upper(Strip(order_type.s)))
         IN  IF t \notin {MARKET, LIMIT, STOP_LIMIT}
             THEN Raise("ValueError",
                        <<"Order type must be MARKET, LIMIT, or STOP_LIMIT.">>)
             ELSE Ok(Str(t))

validate_positive_float(value, field_name) ==
    LET r == PyFloat(value)
    IN  IF ~r.ok THEN Raise("ValueError", <<field_name, " must be a number.">>)
        ELSE IF LeZero(r.val)
             THEN Raise("ValueError", <<field_name, " must be greater than 0.">>)
             ELSE r

OrderParams(symbol, side, order_type, quantity, price, stop_price) ==
    [symbol |-> symbol, side |-> side, order_type |-> order_type,
     quantity |-> quantity, price |-> price, stop_price |-> stop_price]

PriceRequired == <<"Price is required for LIMIT and STOP_LIMIT orders.">>
StopPriceRequired == <<"stop-price is required for STOP_LIMIT orders.">>

\* Lines 157-176: the price and stop-price rules, then the constructor.
ValidatePrices(args, symbol, side, order_type, quantity) ==
    LET needPrice == order_type.s \in {LIMIT, STOP_LIMIT}
        needStop == order_type.s = STOP_LIMIT
        p == validate_positive_float(args.price, "Price")
        sp == validate_positive_float(args.stop_price, "Stop price")
    IN  IF needPrice /\ args.price = None
        THEN Raise("ValueError", PriceRequired)
        ELSE IF needPrice /\ ~p.ok THEN p
        ELSE IF needStop /\ args.stop_price = None
        THEN Raise("ValueError", StopPriceRequired)
        ELSE IF needStop /\ ~sp.ok THEN sp
        ELSE Ok(OrderParams(symbol, side, order_type, quantity,
                            IF needPrice THEN p.val ELSE None,
                            IF needStop THEN sp.val ELSE None))

\* The quantity rule moved behind the price rules.
QuantityLast(args) ==
    LET symbol == validate_symbol(args.symbol)
        side == validate_side(args.side)
        order_type == validate_order_type(args.type)
        quantity == validate_positive_float(args.qty, "Quantity")
        rest == ValidatePrices(args, symbol.val, side.val, order_type.val, NaN)
    IN  IF ~symbol.ok THEN symbol
        ELSE IF ~side.ok THEN side
        ELSE IF ~order_type.ok THEN order_type
        ELSE IF ~rest.ok THEN rest
        ELSE IF ~quantity.ok THEN quantity
        ELSE ValidatePrices(args, symbol.val, side.val, order_type.val,
                            quantity.val)

validate_order_params(args) ==
    LET symbol == validate_symbol(args.symbol)
        side == validate_side(args.side)
        order_type == validate_order_type(args.type)
        quantity == validate_positive_float(args.qty, "Quantity")
    IN  IF ~symbol.ok THEN symbol
        ELSE IF ~side.ok THEN side
        ELSE IF ~order_type.ok THEN order_type
        ELSE IF ~quantity.ok THEN quantity
        ELSE ValidatePrices(args, symbol.val, side.val, order_type.val,
                            quantity.val)

(***************************************************************************)
(* BasicBot                                                                *)
(***************************************************************************)
\* The STOP_LIMIT branch sending the internal name instead of STOP.
StopLimitSentAsIs(params) ==
    LET payload == ("symbol" :> params.symbol @@ "side" :> params.side
                    @@ "type" :> None @@ "quantity" :> params.quantity)
    IN  IF params.order_type.s = MARKET
        THEN Ok([payload EXCEPT !["type"] = Str(MARKET)])
        ELSE IF params.order_type.s = LIMIT
        THEN Ok("timeInForce" :> Str(GTC) @@ "price" :> params.price
                @@ [payload EXCEPT !["type"] = Str(LIMIT)])
        ELSE Ok("timeInForce" :> Str(GTC) @@ "price" :> params.price
                @@ "stopPrice" :> params.stop_price
                @@ [payload EXCEPT !["type"] = Str(STOP_LIMIT)])

_build_order_payload(params) ==
    LET payload == ("symbol" :> params.symbol @@ "side" :> params.side
                    @@ "type" :> None @@ "quantity" :> params.quantity)
    IN  IF params.order_type.s = MARKET
        THEN Ok([payload EXCEPT !["type"] = Str(MARKET)])
        ELSE IF params.order_type.s = LIMIT
        THEN Ok("timeInForce" :> Str(GTC) @@ "price" :> params.price
                @@ [payload EXCEPT !["type"] = Str(LIMIT)])
        ELSE IF params.order_type.s = STOP_LIMIT
        THEN Ok("timeInForce" :> Str(GTC) @@ "price" :> params.price
                @@ "stopPrice" :> params.stop_price
                @@ [payload EXCEPT !["type"] = Str(STOP)])
        ELSE Raise("TradingBotError",
                   <<"Unsupported internal order type: ", "{params.order_type}">>)

\* Exception classes.  KeyboardInterrupt and SystemExit derive from
\* BaseException, the others from Exception.
BinanceExceptions ==
    {"BinanceAPIException", "BinanceOrderException", "BinanceRequestException"}
IsException(cls) == cls \notin {"KeyboardInterrupt", "SystemExit"}

KeyboardInterrupt == Exc("KeyboardInterrupt", <<>>)

\* Only the Binance exception classes are wrapped.
OnlyBinanceWrapped(e) ==
    IF e.cls \in BinanceExceptions
    THEN Exc("TradingBotError", <<"Binance API error: ">> \o e.msg)
    ELSE e

\* The except clauses of place_order: what is raised in place of e.
place_order_except(e) ==
    IF e.cls \in BinanceExceptions
    THEN Exc("TradingBotError", <<"Binance API error: ">> \o e.msg)
    ELSE IF IsException(e.cls)
    THEN Exc("TradingBotError",
             <<"Unexpected error while placing order: ">> \o e.msg)
    ELSE e

\* What the python-binance client may do with a call: return or raise.
Response(status) ==
    [orderId |-> "12345", symbol |-> "BTCUSDT", side |-> "BUY",
     type |-> "MARKET", status |-> status, executedQty |-> "0"]

ClientErrors ==
    {Exc("BinanceAPIException",
         <<"APIError(code=-2019): Margin is insufficient.">>),
     Exc("BinanceOrderException", <<"code=-1013 Invalid quantity.">>),
     Exc("BinanceRequestException", <<"Invalid Response: <html>">>),
     Exc("ConnectionError", <<"Max retries exceeded with url">>)}

SubmitOutcomes ==
    {Ok(Response(st)) : st \in {"NEW", "FILLED"}}
    \cup {[ok |-> FALSE, exc |-> e] : e \in ClientErrors}

\* Client(api_key, api_secret, testnet=True) pings the testnet.
ClientInitOutcomes ==
    {Ok(None)} \cup {[ok |-> FALSE, exc |-> e] : e \in ClientErrors}

(***************************************************************************)
(* CLI                                                                     *)
(***************************************************************************)
\* A required option left out makes argparse exit with status 2.
parse_args(cli) ==
    IF \E k \in {"symbol", "side", "type", "qty"} : cli[k] = None
    THEN Raise("SystemExit", <<"2">>)
    ELSE Ok(cli)

CredentialsRequired ==
    <<"API credentials are required. Provide --api-key / --api-secret or set ",
      "BINANCE_API_KEY / BINANCE_API_SECRET environment variables.">>

\* x or y
PyOr(x, y) == IF Truthy(x) THEN x ELSE y

\* The check written with "and": one credential is enough to pass.
EitherCredentialSuffices(a, env) ==
    LET api_key == PyOr(a.api_key, env.BINANCE_API_KEY)
        api_secret == PyOr(a.api_secret, env.BINANCE_API_SECRET)
    IN  IF ~Truthy(api_key) /\ ~Truthy(api_secret)
        THEN Raise("TradingBotError", CredentialsRequired)
        ELSE Ok(<<api_key, api_secret>>)

resolve_credentials(a, env) ==
    LET api_key == PyOr(a.api_key, env.BINANCE_API_KEY)
        api_secret == PyOr(a.api_secret, env.BINANCE_API_SECRET)
    IN  IF ~Truthy(api_key) \/ ~Truthy(api_secret)
        THEN Raise("TradingBotError", CredentialsRequired)
        ELSE Ok(<<api_key, api_secret>>)

\* The lines print_order_summary prints.
print_order_summary(order) ==
    << <<"\n=== Order Summary ===">>,
       <<"Order ID         : ", order.orderId>>,
       <<"Symbol           : ", order.symbol>>,
       <<"Side             : ", order.side>>,
       <<"Type             : ", order.type>>,
       <<"Status           : ", order.status>>,
       <<"Executed Quantity: ", order.executedQty>>,
       <<"=====================\n">> >>

ErrorLine(e) == <<"Error: ">> \o e.msg
InterruptedLine == <<"\nExecution interrupted by user.">>

\* The except clauses of main: where an exception raised in the try goes.
main_except(e) ==
    IF e.cls = "ValueError" THEN "h_value"
    ELSE IF e.cls = "TradingBotError" THEN "h_bot"
    ELSE IF e.cls = "KeyboardInterrupt" THEN "h_kbd"
    ELSE "exit"

(***************************************************************************)
(* Inputs                                                                  *)
(***************************************************************************)
Symbols == {None, Str(<<"e","t","h">>),
            Str(<<" ","b","t","c","u","s","d","t">>)}
Sides == {Str(<<"b","u","y">>), Str(<<"S","E","L","L"," ">>),
          Str(<<"h","o","l","d">>)}
Types == {Str(<<"m","k","t">>), Str(<<"L","i","m","i","t">>),
          Str(<<"s","t","o","p","-","l","i","m","i","t">>),
          Str(<<"S","T","O","P","_","L","I","M","I","T">>),
          Str(<<"s","t","o","p">>), Str(<<>>)}
Quantities == {Str(<<".","0","1">>), Str(<<"a","b","c">>),
               Str(<<"0">>), Str(<<"-","1">>), Str(<<"n","a","n">>)}
Prices == {None, Str(<<"5","0","0","0","0">>), Str(<<"0",".","0">>),
           Str(<<"N","a","N">>)}
StopPrices == {None, Str(<<"4","9","0","0","0">>), Str(<<"-","1">>),
               Str(<<>>)}
Key == Str(<<"k">>)
Secret == Str(<<"s">>)
CliCredentials == {<<None, None>>, <<Key, Secret>>, <<Key, None>>,
                   <<Str(<<>>), Secret>>}
Environments ==
    {[BINANCE_API_KEY |-> None, BINANCE_API_SECRET |-> None],
     [BINANCE_API_KEY |-> Key, BINANCE_API_SECRET |-> Secret]}

\* Order types under test, and every way of writing one: each letter in
\* either case, up to MaxPad whitespace characters on each side.
TypeSamples == {<<"m","k","t">>, <<"m","a","r","k","e","t">>,
                <<"l","i","m","i","t">>,
                <<"s","t","o","p","-","l","i","m","i","t">>,
                <<"s","t","o","p","l","i","m","i","t">>,
                <<"s","t","o","p","_","l","i","m","i","t">>,
                <<"s","t","o","p">>, <<"m","k"," ","t">>, <<>>}

RECURSIVE CaseForms(_)
CaseForms(s) ==
    IF s = <<>> THEN {<<>>}
    ELSE {<<c>> \o r : c \in {LowerChar(Head(s)), UpperChar(Head(s))},
                       r \in CaseForms(Tail(s))}

RECURSIVE Pads(_)
Pads(n) ==
    IF n = 0 THEN {<<>>}
    ELSE Pads(n - 1) \cup {<<c>> \o p : c \in Whitespace, p \in Pads(n - 1)}

Writings(s) ==
    {l \o c \o r : l \in Pads(MaxPad), c \in CaseForms(s), r \in Pads(MaxPad)}

(***************************************************************************)
(* State of one run of main()                                              *)
(***************************************************************************)
VARIABLES
    pc,            \* position in main()
    argv,          \* the command line: each option a str, or None when left out
    environ,       \* os.environ
    args,          \* the Namespace parse_args returned
    params,        \* the OrderParams validate_order_params returned
    clientCalls,   \* calls of Client(...)
    submitCalls,   \* calls of client.futures_create_order
    payloadSent,   \* the payload of the last futures_create_order call
    clientOutcome, \* what futures_create_order did: Ok(response) or a raise
    orderResponse, \* what place_order returned
    exc,           \* the exception that left the body of the try, or of main
    escaped,       \* whether an exception propagated out of main()
    raisedBy,      \* per step of main(), the exception it raised, or None
    done,          \* the steps of main() that completed
    stdout,        \* the texts printed, in order
    interrupts,    \* interruptions delivered so far
    interruptedAt, \* where each interruption arrived, in order
    tIn,           \* validate_order_type alone: its argument,
    tBase,         \*   the sample the argument is a writing of,
    tOut,          \*   its result,
    tAgain         \*   and the result of validating that result again

vars == <<pc, argv, environ, args, params, clientCalls, submitCalls,
          payloadSent, clientOutcome, orderResponse, exc, escaped, raisedBy,
          done, stdout, interrupts, interruptedAt, tIn, tBase, tOut, tAgain>>

typeVars == <<tIn, tBase, tOut, tAgain>>
inputVars == <<argv, environ>>
clientVars == <<clientCalls, submitCalls, payloadSent, clientOutcome,
                orderResponse>>
interruptVars == <<interrupts, interruptedAt>>

Cli(symbol, side, type, qty, price, stop_price, cred) ==
    [symbol |-> symbol, side |-> side, type |-> type, qty |-> qty,
     price |-> price, stop_price |-> stop_price,
     api_key |-> cred[1], api_secret |-> cred[2]]

Steps == {"logging", "parse", "validate", "credentials", "construct",
          "place", "print"}

RunInit ==
    /\ pc = "start"
    /\ args = None
    /\ params = None
    /\ clientCalls = 0
    /\ submitCalls = 0
    /\ payloadSent = None
    /\ clientOutcome = None
    /\ orderResponse = None
    /\ exc = None
    /\ escaped = FALSE
    /\ raisedBy = [step \in Steps |-> None]
    /\ done = {}
    /\ stdout = <<>>
    /\ interrupts = 0
    /\ interruptedAt = <<>>

Init ==
    /\ argv \in {Cli(sy, si, ty, q, p, sp, c) :
                    sy \in Symbols, si \in Sides, ty \in Types,
                    q \in Quantities, p \in Prices, sp \in StopPrices,
                    c \in CliCredentials}
    /\ environ \in Environments
    /\ RunInit
    /\ tIn = None /\ tBase = None /\ tOut = None /\ tAgain = None

\* A step of main() completes.
Completed(step) ==
    /\ done' = done \cup {step}
    /\ UNCHANGED <<exc, escaped, raisedBy>>

\* An exception e leaves the body of the try at step `step`.
RaisedInTry(e, step) ==
    /\ exc' = e
    /\ raisedBy' = [raisedBy EXCEPT ![step] = e]
    /\ UNCHANGED done
    /\ pc' = main_except(e)
    /\ escaped' = (main_except(e) = "exit")

\* Line 415: setup_logging() stands before the try.
SetupLogging ==
    /\ pc = "start"
    /\ pc' = "parse"
    /\ Completed("logging")
    /\ UNCHANGED <<args, params, stdout>>
    /\ UNCHANGED <<inputVars, clientVars, interruptVars, typeVars>>

ParseArgs ==
    /\ pc = "parse"
    /\ LET r == parse_args(argv)
       IN  IF r.ok
           THEN /\ args' = r.val
                /\ pc' = "validate"
                /\ Completed("parse")
           ELSE /\ RaisedInTry(r.exc, "parse")
                /\ UNCHANGED args
    /\ UNCHANGED <<params, stdout>>
    /\ UNCHANGED <<inputVars, clientVars, interruptVars, typeVars>>

Validate ==
    /\ pc = "validate"
    /\ LET r == validate_order_params(args)
       IN  IF r.ok
           THEN /\ params' = r.val
                /\ pc' = "credentials"
                /\ Completed("validate")
           ELSE /\ RaisedInTry(r.exc, "validate")
                /\ UNCHANGED params
    /\ UNCHANGED <<args, stdout>>
    /\ UNCHANGED <<inputVars, clientVars, interruptVars, typeVars>>

ResolveCredentials ==
    /\ pc = "credentials"
    /\ LET r == resolve_credentials(args, environ)
       IN  IF r.ok
           THEN /\ pc' = "construct"
                /\ Completed("credentials")
           ELSE RaisedInTry(r.exc, "credentials")
    /\ UNCHANGED <<args, params, stdout>>
    /\ UNCHANGED <<inputVars, clientVars, interruptVars, typeVars>>

\* BasicBot.__init__ with testnet=True: the guard of line 207 is false and
\* the constructor of the client runs.
ConstructBot ==
    /\ pc = "construct"
    /\ clientCalls' = clientCalls + 1
    /\ \E o \in ClientInitOutcomes :
          IF o.ok
          THEN /\ pc' = "place"
               /\ Completed("construct")
          ELSE RaisedInTry(o.exc, "construct")
    /\ UNCHANGED <<args, params, stdout>>
    /\ UNCHANGED <<submitCalls, payloadSent, clientOutcome, orderResponse>>
    /\ UNCHANGED <<inputVars, interruptVars, typeVars>>

\* place_order submitting a second time when the first call raised.
PlaceOrderRetrying ==
    /\ pc = "place"
    /\ LET b == _build_order_payload(params)
       IN  \E o \in SubmitOutcomes :
              /\ submitCalls' = submitCalls + (IF o.ok THEN 1 ELSE 2)
              /\ payloadSent' = b.val
              /\ clientOutcome' = o
              /\ IF o.ok
                 THEN /\ orderResponse' = o.val
                      /\ pc' = "print"
                      /\ Completed("place")
                 ELSE /\ RaisedInTry(place_order_except(o.exc), "place")
                      /\ UNCHANGED orderResponse
    /\ UNCHANGED <<args, params, stdout, clientCalls>>
    /\ UNCHANGED <<inputVars, interruptVars, typeVars>>

\* bot.place_order(params): build the payload, call the client once, return
\* its response or raise what the except clauses make of its exception.
PlaceOrder ==
    /\ pc = "place"
    /\ LET b == _build_order_payload(params)
       IN  IF ~b.ok
           THEN /\ RaisedInTry(b.exc, "place")
                /\ UNCHANGED <<submitCalls, payloadSent, clientOutcome,
                               orderResponse>>
           ELSE \E o \in SubmitOutcomes :
                   /\ submitCalls' = submitCalls + 1
                   /\ payloadSent' = b.val
                   /\ clientOutcome' = o
                   /\ IF o.ok
                      THEN /\ orderResponse' = o.val
                           /\ pc' = "print"
                           /\ Completed("place")
                      ELSE /\ RaisedInTry(place_order_except(o.exc), "place")
                           /\ UNCHANGED orderResponse
    /\ UNCHANGED <<args, params, stdout, clientCalls>>
    /\ UNCHANGED <<inputVars, interruptVars, typeVars>>

PrintOrderSummary ==
    /\ pc = "print"
    /\ stdout' = stdout \o print_order_summary(orderResponse)
    /\ pc' = "exit"
    /\ Completed("print")
    /\ UNCHANGED <<args, params>>
    /\ UNCHANGED <<inputVars, clientVars, interruptVars, typeVars>>

\* except ValueError and except TradingBotError: print(f"Error: {e}").
HandleValueError ==
    /\ pc = "h_value"
    /\ stdout' = Append(stdout, ErrorLine(exc))
    /\ pc' = "exit"
    /\ UNCHANGED <<args, params, exc, escaped, raisedBy, done>>
    /\ UNCHANGED <<inputVars, clientVars, interruptVars, typeVars>>

HandleTradingBotError ==
    /\ pc = "h_bot"
    /\ stdout' = Append(stdout, ErrorLine(exc))
    /\ pc' = "exit"
    /\ UNCHANGED <<args, params, exc, escaped, raisedBy, done>>
    /\ UNCHANGED <<inputVars, clientVars, interruptVars, typeVars>>

HandleKeyboardInterrupt ==
    /\ pc = "h_kbd"
    /\ stdout' = Append(stdout, InterruptedLine)
    /\ pc' = "exit"
    /\ UNCHANGED <<args, params, exc, escaped, raisedBy, done>>
    /\ UNCHANGED <<inputVars, clientVars, interruptVars, typeVars>>

\* The steps of main() that stand inside the try.
InTry == {"parse", "validate", "credentials", "construct", "place", "print"}
Handlers == {"h_value", "h_bot", "h_kbd"}

\* The operator presses Ctrl-C: KeyboardInterrupt is raised where main()
\* stands.  Inside the try it reaches the except clauses of main; before the
\* try and inside an except clause nothing catches it.
InterruptMain ==
    /\ pc \in {"start"} \cup InTry \cup Handlers
    /\ interrupts < MaxInterrupts
    /\ interrupts' = interrupts + 1
    /\ interruptedAt' = Append(interruptedAt, pc)
    /\ exc' = KeyboardInterrupt
    /\ IF pc \in InTry
       THEN /\ pc' = main_except(KeyboardInterrupt)
            /\ escaped' = (main_except(KeyboardInterrupt) = "exit")
       ELSE /\ pc' = "exit"
            /\ escaped' = TRUE
    /\ UNCHANGED <<args, params, raisedBy, done, stdout>>
    /\ UNCHANGED <<inputVars, clientVars, typeVars>>

\* Ctrl-C while the blocking futures_create_order call is in progress: the
\* call raises KeyboardInterrupt inside the try of place_order.
InterruptSubmission ==
    /\ pc = "place"
    /\ interrupts < MaxInterrupts
    /\ _build_order_payload(params).ok
    /\ interrupts' = interrupts + 1
    /\ interruptedAt' = Append(interruptedAt, "submission")
    /\ submitCalls' = submitCalls + 1
    /\ payloadSent' = _build_order_payload(params).val
    /\ clientOutcome' = [ok |-> FALSE, exc |-> KeyboardInterrupt]
    /\ RaisedInTry(place_order_except(KeyboardInterrupt), "place")
    /\ UNCHANGED <<args, params, stdout, clientCalls, orderResponse>>
    /\ UNCHANGED <<inputVars, typeVars>>

Next ==
    \/ SetupLogging
    \/ ParseArgs
    \/ Validate
    \/ ResolveCredentials
    \/ ConstructBot
    \/ PlaceOrder
    \/ PrintOrderSummary
    \/ HandleValueError
    \/ HandleTradingBotError
    \/ HandleKeyboardInterrupt
    \/ InterruptMain
    \/ InterruptSubmission

Spec == Init /\ [][Next]_vars

(***************************************************************************)
(* validate_order_type on its own, over every writing of the samples       *)
(***************************************************************************)
TypeInit ==
    /\ tBase \in {Str(s) : s \in TypeSamples}
    /\ tIn \in {Str(w) : w \in Writings(tBase.s)}
    /\ tOut = None
    /\ tAgain = None
    /\ argv = None
    /\ environ = None
    /\ RunInit

ValidateType ==
    /\ tOut = None
    /\ tOut' = validate_order_type(tIn)
    /\ UNCHANGED <<tIn, tBase, tAgain>>
    /\ UNCHANGED <<pc, args, params, exc, escaped, raisedBy, done, stdout>>
    /\ UNCHANGED <<inputVars, clientVars, interruptVars>>

ValidateTypeAgain ==
    /\ tOut # None
    /\ tOut.ok
    /\ tAgain = None
    /\ tAgain' = validate_order_type(tOut.val)
    /\ UNCHANGED <<tIn, tBase, tOut>>
    /\ UNCHANGED <<pc, args, params, exc, escaped, raisedBy, done, stdout>>
    /\ UNCHANGED <<inputVars, clientVars, interruptVars>>

TypeNext == ValidateType \/ ValidateTypeAgain

TypeSpec == TypeInit /\ [][TypeNext]_vars

(***************************************************************************)
(* Properties                                                              *)
(***************************************************************************)
Range(f) == {f[i] : i \in DOMAIN f}
IsErrorLine(line) == line # <<>> /\ line[1] = "Error: "
IsSuffix(m, whole) ==
    Len(m) <= Len(whole) /\ SubSeq(whole, Len(whole) - Len(m) + 1, Len(whole)) = m

\* A float strictly greater than 0; nan is not.
Positive(f) ==
    /\ f.t = "float"
    /\ f.cls \in {"fin", "inf"}
    /\ ~f.neg
    /\ f.cls = "fin" => f.mant > 0

\* A credential given neither on the command line nor in the environment.
CredentialsMissing ==
    \/ ~Truthy(argv.api_key) /\ ~Truthy(environ.BINANCE_API_KEY)
    \/ ~Truthy(argv.api_secret) /\ ~Truthy(environ.BINANCE_API_SECRET)

\* C1: in a run whose input fails validation or whose credentials are
\* missing, Client(...) is never called and futures_create_order is never
\* invoked; when such a run ends uninterrupted after its arguments parsed,
\* it has printed the error and nothing else.
C1_NoExternalCallAfterEarlyFailure ==
    (~validate_order_params(argv).ok \/ CredentialsMissing) =>
        /\ clientCalls = 0
        /\ submitCalls = 0
        /\ payloadSent = None
        /\ (pc = "exit" /\ interrupts = 0 /\ "parse" \in done) =>
              /\ ~escaped
              /\ Len(stdout) = 1
              /\ IsErrorLine(stdout[1])

C1_Witness ==
    /\ pc = "exit"
    /\ "validate" \in done
    /\ raisedBy["credentials"] # None
    /\ stdout = <<ErrorLine(raisedBy["credentials"])>>
    /\ clientCalls = 0

\* C2 as stated: futures_create_order is invoked at most once, and exactly
\* once in every finished run in which validation and credential resolution
\* both succeeded (taken here for runs nobody interrupted).
C2_ExactlyOnceAfterCredentials ==
    /\ submitCalls <= 1
    /\ (pc = "exit" /\ interrupts = 0 /\ {"validate", "credentials"} \subseteq done)
          => submitCalls = 1

\* C2 amended: futures_create_order is invoked at most once in any run and a
\* failed call is not repeated; it is invoked exactly once in every finished
\* run in which the client was constructed and no interruption arrived
\* between the construction and the call, and never when the construction
\* did not complete.
C2_AtMostOnceExactlyOnceAfterConstruction ==
    /\ submitCalls <= 1
    /\ "construct" \notin done => submitCalls = 0
    /\ (pc = "exit" /\ "construct" \in done /\ "place" \notin Range(interruptedAt))
          => submitCalls = 1
    /\ raisedBy["place"] # None =>
          submitCalls = 1 /\ pc \in {"h_bot", "h_kbd", "exit"}

C2_Witness ==
    /\ pc = "exit"
    /\ clientOutcome # None
    /\ ~clientOutcome.ok
    /\ raisedBy["place"] # None
    /\ submitCalls = 1

\* C3 as stated: every OrderParams validate_order_params returns has side
\* BUY or SELL, a canonical order type, a positive quantity, a positive price
\* exactly for LIMIT and STOP_LIMIT and a positive stop price exactly for
\* STOP_LIMIT.
C3_ReturnedParamsFullyValid ==
    params # None =>
        /\ params.side.s \in {BUY, SELL}
        /\ params.order_type.s \in {MARKET, LIMIT, STOP_LIMIT}
        /\ Positive(params.quantity)
        /\ (params.price # None) <=> (params.order_type.s \in {LIMIT, STOP_LIMIT})
        /\ params.price # None => Positive(params.price)
        /\ (params.stop_price # None) <=> (params.order_type.s = STOP_LIMIT)
        /\ params.stop_price # None => Positive(params.stop_price)

\* C4: the payload handed to futures_create_order is the one of the mapping
\* table: symbol, side and quantity as in the OrderParams, type set, and per
\* order type exactly the extra fields of the table.
C4_PayloadIsTheMappingTable ==
    payloadSent # None =>
        LET base == {"symbol", "side", "type", "quantity"}
        IN  /\ payloadSent["symbol"] = params.symbol
            /\ payloadSent["side"] = params.side
            /\ payloadSent["quantity"] = params.quantity
            /\ payloadSent["type"] # None
            /\ params.order_type.s = MARKET =>
                  /\ DOMAIN payloadSent = base
                  /\ payloadSent["type"] = Str(MARKET)
            /\ params.order_type.s = LIMIT =>
                  /\ DOMAIN payloadSent = base \cup {"timeInForce", "price"}
                  /\ payloadSent["type"] = Str(LIMIT)
                  /\ payloadSent["timeInForce"] = Str(GTC)
                  /\ payloadSent["price"] = params.price
            /\ params.order_type.s = STOP_LIMIT =>
                  /\ DOMAIN payloadSent =
                        base \cup {"timeInForce", "price", "stopPrice"}
                  /\ payloadSent["type"] = Str(STOP)
                  /\ payloadSent["timeInForce"] = Str(GTC)
                  /\ payloadSent["price"] = params.price
                  /\ payloadSent["stopPrice"] = params.stop_price

C4_Witness ==
    /\ payloadSent # None
    /\ params.order_type.s = STOP_LIMIT
    /\ payloadSent["type"] = Str(STOP)
    /\ Positive(payloadSent["stopPrice"])

\* C5: when futures_create_order raises an exception (any class deriving
\* from Exception), place_order raises a TradingBotError whose message ends
\* with the message of that exception; when it returns, place_order returns
\* its response unchanged.
C5_ClientErrorsBecomeTradingBotError ==
    clientOutcome # None =>
        IF clientOutcome.ok
        THEN orderResponse = clientOutcome.val /\ raisedBy["place"] = None
        ELSE IsException(clientOutcome.exc.cls) =>
                /\ orderResponse = None
                /\ raisedBy["place"] # None
                /\ raisedBy["place"].cls = "TradingBotError"
                /\ IsSuffix(clientOutcome.exc.msg, raisedBy["place"].msg)
                /\ Len(raisedBy["place"].msg) > Len(clientOutcome.exc.msg)

C5_Witness ==
    /\ pc = "exit"
    /\ clientOutcome # None
    /\ ~clientOutcome.ok
    /\ clientOutcome.exc.cls = "ConnectionError"
    /\ raisedBy["place"].cls = "TradingBotError"
    /\ stdout = <<ErrorLine(raisedBy["place"])>>

\* C6 as stated, for the steps after argument parsing: whichever of
\* validation, credential resolution, construction of the client and order
\* submission fails in a run nobody interrupts, the run ends with exactly
\* one printed line "Error: <message>" and no exception leaves main().
C6_EveryFailureEndsInOneErrorLine ==
    (/\ pc = "exit"
     /\ interrupts = 0
     /\ \E step \in {"validate", "credentials", "construct", "place"} :
           raisedBy[step] # None)
    => /\ ~escaped
       /\ Len(stdout) = 1
       /\ IsErrorLine(stdout[1])

\* C7 as stated: a run the operator interrupted, wherever the interruption
\* arrived, ends with the interruption message printed, no "Error:" line and
\* no exception leaving main().
C7_InterruptionEndsCleanly ==
    (pc = "exit" /\ interrupts > 0) =>
        /\ ~escaped
        /\ InterruptedLine \in Range(stdout)
        /\ \A i \in 1..Len(stdout) : ~IsErrorLine(stdout[i])

\* The order in which the rules are written down, and for each field whether
\* its own rule rejects the command line a.
FieldFails(a, field) ==
    LET ty == validate_order_type(a.type)
    IN  CASE field = 1 -> ~validate_symbol(a.symbol).ok
          [] field = 2 -> ~validate_side(a.side).ok
          [] field = 3 -> ~ty.ok
          [] field = 4 -> ~validate_positive_float(a.qty, "Quantity").ok
          [] field = 5 -> /\ ty.ok
                          /\ ty.val.s \in {LIMIT, STOP_LIMIT}
                          /\ \/ a.price = None
                             \/ ~validate_positive_float(a.price, "Price").ok
          [] field = 6 -> /\ ty.ok
                          /\ ty.val.s = STOP_LIMIT
                          /\ \/ a.stop_price = None
                             \/ ~validate_positive_float(a.stop_price,
                                                         "Stop price").ok

\* The field an error message of the validator is about.
FieldOf(msg) ==
    CASE msg[1] \in {"Symbol must not be empty.",
                     "Symbol looks invalid (too short). Example: BTCUSDT."} -> 1
      [] msg[1] \in {"Side must be provided (BUY or SELL).",
                     "Side must be BUY or SELL."} -> 2
      [] msg[1] \in {"Order type must be provided.",
                     "Order type must be MARKET, LIMIT, or STOP_LIMIT."} -> 3
      [] msg[1] = "Quantity" -> 4
      [] msg = PriceRequired \/ msg[1] = "Price" -> 5
      [] msg = StopPriceRequired \/ msg[1] = "Stop price" -> 6
      [] OTHER -> 0

\* C8: once validate_order_params has run, it has failed exactly when some
\* field's rule fails, the error it raised is about the first failing field
\* in the order symbol, side, order type, quantity, price, stop price, and
\* for price and stop price it is the "is required" message exactly when the
\* option was left out.
C8_FirstFailingFieldIsReported ==
    ("validate" \in done \/ raisedBy["validate"] # None) =>
        LET failing == {f \in 1..6 : FieldFails(args, f)}
            e == raisedBy["validate"]
        IN  /\ (e # None) <=> (failing # {})
            /\ e # None =>
                  /\ e.cls = "ValueError"
                  /\ FieldOf(e.msg) \in failing
                  /\ \A f \in failing : FieldOf(e.msg) <= f
                  /\ FieldOf(e.msg) = 5 =>
                        ((e.msg = PriceRequired) <=> (args.price = None))
                  /\ FieldOf(e.msg) = 6 =>
                        ((e.msg = StopPriceRequired) <=> (args.stop_price = None))

C8_Witness ==
    /\ raisedBy["validate"] # None
    /\ raisedBy["validate"].msg = PriceRequired
    /\ FieldFails(args, 5)
    /\ FieldFails(args, 6)
    /\ args.stop_price = None

\* C9 as stated: once the validator has run, for each of quantity, price and
\* stop price that it came to check (every earlier field passed, the order
\* type asks for the field and the option was given), the run went on past
\* the field only when the number parsed from it is strictly greater than 0,
\* and otherwise the validator failed with a message that starts with the
\* name of the field.
C9_OnlyPositiveFloatsPass ==
    ("validate" \in done \/ raisedBy["validate"] # None) =>
        LET ty == validate_order_type(args.type)
            e == raisedBy["validate"]
            asked(f) == CASE f = 4 -> TRUE
                          [] f = 5 -> ty.val.s \in {LIMIT, STOP_LIMIT}
                          [] f = 6 -> ty.val.s = STOP_LIMIT
        IN  \A given \in {<<4, args.qty, "Quantity">>,
                          <<5, args.price, "Price">>,
                          <<6, args.stop_price, "Stop price">>} :
                (/\ given[2] # None
                 /\ \A f \in 1..(given[1] - 1) : ~FieldFails(args, f)
                 /\ asked(given[1]))
                => LET parsed == PyFloat(given[2])
                   IN  IF parsed.ok /\ Positive(parsed.val)
                       THEN e = None \/ FieldOf(e.msg) > given[1]
                       ELSE e # None /\ e.msg[1] = given[3]

\* C10: every writing of an order type (any letter case, whitespace around
\* it) is accepted or rejected as the lower-case sample is, and resolves to
\* the same type; an accepted one resolves to MARKET, LIMIT or STOP_LIMIT,
\* with mkt giving MARKET and stop-limit and stoplimit giving STOP_LIMIT; and
\* validating the result again gives the same result.
C10_AliasResolutionIgnoresCaseAndIsIdempotent ==
    tOut # None =>
        LET base == validate_order_type(tBase)
        IN  /\ tOut.ok = base.ok
            /\ tOut.ok =>
                  /\ tOut.val = base.val
                  /\ tOut.val.s \in {MARKET, LIMIT, STOP_LIMIT}
            /\ tBase.s = <<"m","k","t">> => tOut = Ok(Str(MARKET))
            /\ tBase.s \in {<<"s","t","o","p","-","l","i","m","i","t">>,
                            <<"s","t","o","p","l","i","m","i","t">>}
                  => tOut = Ok(Str(STOP_LIMIT))
            /\ tBase.s = <<"s","t","o","p">> => ~tOut.ok
            /\ tAgain # None => tAgain = tOut

C10_Witness ==
    /\ tIn = Str(<<"\t","S","t","O","p","-","L","i","M","i","T"," ">>)
    /\ tOut = Ok(Str(STOP_LIMIT))
    /\ tAgain = tOut

====
